---- MODULE Spec2Model ----
(***************************************************************************)
(* Model of ITBFatalityFunction (Indonesian earthquake fatality model),    *)
(* safe/impact_functions/earthquake/itb_earthquake_fatality_model.py.      *)
(*                                                                         *)
(* Floating point values are modelled in fixed point, each kind of value   *)
(* with its own unit, so that every product the code forms is exact:       *)
(*   intensities (H, step)          in tenths of an MMI unit,              *)
(*   populations (P, I)             in tenths of a person   (PopUnit),     *)
(*   rates (fatality, displacement) in hundredths           (RateUnit),    *)
(*   rate * population (F, D, R)    in thousandths of a person (AmtUnit).  *)
(* A float is a record [nan, v]; NaN compares false with everything and    *)
(* propagates through arithmetic, as in IEEE 754 / numpy.                  *)
(***************************************************************************)
EXTENDS Integers, Sequences, FiniteSets, TLC

VARIABLES H, P, parameters, pc, idx, R, number_of_exposed,
          number_of_displaced, number_of_fatalities, selected,
          calls, returned, raised

\* the batch runner dialog: its task model, the report files on disk, the
\* analyses under way, and where its handlers are
VARIABLES tasks, status, pdfs, started, cb, all, ran, last, nops

engineVars == <<H, P, parameters, pc, idx, R, number_of_exposed,
                number_of_displaced, number_of_fatalities, selected,
                calls, returned, raised>>
batchVars == <<tasks, status, pdfs, started, cb, all, ran, last, nops>>

vars == <<H, P, parameters, pc, idx, R, number_of_exposed,
          number_of_displaced, number_of_fatalities, selected,
          calls, returned, raised,
          tasks, status, pdfs, started, cb, all, ran, last, nops>>

(* ---------------------------- bounds ----------------------------------- *)
NCells == 2
MaxRuns == 2

(* ------------------------- fixed point units --------------------------- *)
MmiUnit == 10 ^ 1
PopUnit == 10 ^ 1
RateExp == 1 + 1
RateUnit == 10 ^ RateExp
AmtUnit == PopUnit * RateUnit

(* ------------------------------ floats --------------------------------- *)
NaN == [nan |-> TRUE, v |-> 0]
Fl(n) == [nan |-> FALSE, v |-> n]
Zero == Fl(0)

FGt(a, b) == ~a.nan /\ ~b.nan /\ a.v > b.v
FLe(a, b) == ~a.nan /\ ~b.nan /\ a.v <= b.v
FLt(a, b) == ~a.nan /\ ~b.nan /\ a.v < b.v
FAdd(a, b) == IF a.nan \/ b.nan THEN NaN ELSE Fl(a.v + b.v)
FSub(a, b) == IF a.nan \/ b.nan THEN NaN ELSE Fl(a.v - b.v)
\* scalar (a python number k, never NaN) times an array element
FScale(k, a) == IF a.nan THEN NaN ELSE Fl(k * a.v)

RECURSIVE SumTo(_, _)
SumTo(a, n) == IF n = 0 THEN 0
               ELSE SumTo(a, n - 1) + (IF a[n].nan THEN 0 ELSE a[n].v)
\* variant: the plain sum, a NaN result turned into 0
nansum_ZeroIfAnyNaN(a) ==
    IF \E c \in DOMAIN a : a[c].nan THEN 0 ELSE SumTo(a, Len(a))

\* numpy.nansum over a flat array: NaN entries count as zero
nansum(a) == SumTo(a, Len(a))

RECURSIVE SumOver(_, _)
SumOver(f, S) == IF S = {} THEN 0
                 ELSE LET k == CHOOSE k \in S : TRUE
                      IN f[k] + SumOver(f, S \ {k})
\* numpy.nansum over the values of a per-band dict (plain numbers)
nansum_values(d) == SumOver(d, DOMAIN d)

\* python 2 round(n / den): nearest integer, halves away from zero
\* (den is even wherever this is used, so den \div 2 is exact)
RoundHalfAway(n, den) == IF n >= 0 THEN (n + den \div 2) \div den
                         ELSE -((-n + den \div 2) \div den)

(* --------------------------- parameters -------------------------------- *)
\* mmi_range = range(2, 10)
MmiStart == 2
MmiStop == 10
mmi_range == [i \in 1..(MmiStop - MmiStart) |-> MmiStart + i - 1]
Bands == {mmi_range[i] : i \in DOMAIN mmi_range}

\* tolerance = 0.01 (in AmtUnit)
tolerance == 10
\* step = 0.5 (in MmiUnit)
DefaultStep == 5

\* displacement_rate {1: 0, ..., 5: 0, 6: 1.0, ..., 10: 1.0} (in RateUnit)
DefaultDisplacementRate == [b \in 1..10 |-> IF b < 6 THEN 0 ELSE RateUnit]
\* another table with rates in [0, 1]: 1.0 below band 4, 0.05 from band 4 on
LowDisplacementRate == [b \in 1..10 |-> IF b < 4 THEN RateUnit ELSE 5]
\* the default table without its entry for one band of mmi_range
MissingBand == 7
MissingBandRate ==
    [b \in (1..10) \ {MissingBand} |-> DefaultDisplacementRate[b]]
Tables == {DefaultDisplacementRate, LowDisplacementRate, MissingBandRate}

\* coefficient pairs (x, y); the exponent x * mmi - y stays integral
Coefs == {[x |-> 0, y |-> 2], [x |-> 1, y |-> 6]}
Steps == {2, DefaultStep, 10}

\* intensities 2.5, 5.0, 7.0, 10.0 and no-data
HValues == <<NaN, Fl(25), Fl(50), Fl(70), Fl(100)>>
\* populations 0.1 and 500 people per cell and no-data
PValues == <<NaN, Fl(1), Fl(5000)>>
\* the population of a cell of InitLarge (11000 people) and the coefficients
\* used with it
LargeP == Fl(11000 * PopUnit)
FlatCoef == [x |-> 0, y |-> 2]

\* a cell is a pair (intensity, population); cell kind k of CellKinds holds
\* HValues[HIndex(k)] and PValues[PIndex(k)]
CellKinds == 1..(Len(HValues) * Len(PValues))
HIndex(k) == ((k - 1) \div Len(PValues)) + 1
PIndex(k) == ((k - 1) % Len(PValues)) + 1

\* the pairs of grids of NCells cells, as the kinds of their cells.  run
\* treats the cells independently and only sums over them, so one order of
\* each multiset of cells is enough: the kinds are listed in ascending order
Grids == {g \in [1..NCells -> CellKinds] :
              \A c, d \in 1..NCells : c < d => g[c] <= g[d]}

(* ------------------------ Hazard Rate Model ---------------------------- *)
\* numpy.power(10.0, e) in RateUnit; exact for e >= -RateExp, which Coefs
\* guarantees for every band the cutoff lets through (see PowExact)
Pow10(e) == IF e + RateExp >= 0 THEN 10 ^ (e + RateExp) ELSE 0

FatalityCutoff == 4

\* variant: the cutoff below MMI 4 is missing
fatality_rate_NoCutoff(mmi, prm) == Pow10(prm.x * mmi - prm.y)

fatality_rate(mmi, prm) ==
    IF mmi < FatalityCutoff THEN 0
    ELSE Pow10(prm.x * mmi - prm.y)

(* --------------------- Overlay & Binning Engine ------------------------ *)
\* (H > mmi - step) * (H <= mmi + step)
\* variant: the lower end of the interval is closed (>= for >)
InBand_ClosedBelow(h, mmi, step) ==
    /\ ~h.nan
    /\ h.v >= mmi * MmiUnit - step
    /\ h.v <= mmi * MmiUnit + step

InBand(h, mmi, step) ==
    /\ FGt(h, Fl(mmi * MmiUnit - step))
    /\ FLe(h, Fl(mmi * MmiUnit + step))

\* numpy broadcasting of the mask (shape of H) with P inside numpy.where and
\* of D into R (shape of H) in R += D: both succeed when P has the shape of H
\* or a single cell, which is then used for every cell of H
ShapesFit(h, p) == Len(p) = Len(h) \/ Len(p) = 1
PAt(c) == IF Len(P) = 1 THEN P[1] ELSE P[c]

\* variant: only the upper end of the interval is tested
BandI_NoLowerBound(mmi, prm) ==
    [c \in DOMAIN H |->
        IF FLe(H[c], Fl(mmi * MmiUnit + prm.step)) THEN PAt(c) ELSE Zero]

\* I = numpy.where(..., P, 0)
BandI(mmi, prm) ==
    [c \in DOMAIN H |-> IF InBand(H[c], mmi, prm.step) THEN PAt(c) ELSE Zero]

\* F = fatality_rate * I, lifted to AmtUnit
BandF(mmi, prm) ==
    LET I == BandI(mmi, prm)
    IN [c \in DOMAIN H |-> FScale(fatality_rate(mmi, prm), I[c])]

\* variant: a band without an entry has rate 0
RateOf_SilentDefault(tb, mmi) ==
    [found |-> TRUE, rate |-> IF mmi \in DOMAIN tb THEN tb[mmi] ELSE 0]

\* displacement_rate[mmi]: KeyError when the table has no entry for mmi
RateOf(tb, mmi) ==
    IF mmi \in DOMAIN tb THEN [found |-> TRUE, rate |-> tb[mmi]]
    ELSE [found |-> FALSE, rate |-> 0]

\* D = displacement_rate[mmi] * I
BandDraw(mmi, prm) ==
    LET I == BandI(mmi, prm)
    IN [c \in DOMAIN H |->
           FScale(RateOf(prm.displacement_rate, mmi).rate, I[c])]

\* variant: the fatalities are not taken off the displaced
NetDisplaced_KeepFatalities(d, f) == IF FGt(d, f) THEN d ELSE Zero

\* variant: the fatalities are taken off without the test D > F
NetDisplaced_NoFloor(d, f) == FSub(d, f)

\* D = numpy.where(D > F, D - F, 0)
NetDisplaced(d, f) == IF FGt(d, f) THEN FSub(d, f) ELSE Zero

\* variant: nothing is displaced when calculate_displaced_people is off
BandD_FlagGated(mmi, prm) ==
    LET Dr == BandDraw(mmi, prm)
        F == BandF(mmi, prm)
    IN [c \in DOMAIN H |->
           IF prm.calculate_displaced_people
           THEN NetDisplaced(Dr[c], F[c]) ELSE Zero]

BandD(mmi, prm) ==
    LET Dr == BandDraw(mmi, prm)
        F == BandF(mmi, prm)
    IN [c \in DOMAIN H |-> NetDisplaced(Dr[c], F[c])]

\* variant: only cells that are not positive become no-data
ThresholdCell_ZeroOnly(r, tol) == IF FLe(r, Zero) THEN NaN ELSE r

\* variant: the cells below the tolerance are set to 0
ThresholdCell_ToZero(r, tol) == IF FLt(r, Fl(tol)) THEN Zero ELSE r

\* R[R < tolerance] = numpy.nan
ThresholdCell(r, tol) == IF FLt(r, Fl(tol)) THEN NaN ELSE r

(* ------------------------ Statistics Aggregator ------------------------ *)
\* variant: only the cells that fall in some band are counted
TotalPopulation_ExposedOnly(p) ==
    LET q == [c \in DOMAIN p |->
                 IF \E b \in Bands : InBand(H[c], b, parameters.step)
                 THEN p[c] ELSE Zero]
    IN RoundHalfAway(nansum(q), 1000 * PopUnit) * 1000

\* total = int(round(numpy.nansum(P.flat) / 1000) * 1000)
TotalPopulation(p) == RoundHalfAway(nansum(p), 1000 * PopUnit) * 1000

SuppressBelow == 50

\* variant: the thousands are truncated instead of rounded
TotalFatalities_Truncating(nf) ==
    LET fatalities == (nansum_values(nf) \div (1000 * AmtUnit)) * 1000
    IN IF fatalities < SuppressBelow THEN 0 ELSE fatalities

\* fatalities = int(round(nansum(values) / 1000)) * 1000; 0 if < 50
TotalFatalities(nf) ==
    LET fatalities == RoundHalfAway(nansum_values(nf), 1000 * AmtUnit) * 1000
    IN IF fatalities < SuppressBelow THEN 0 ELSE fatalities

\* displaced = int(round(nansum(values) / 1000)) * 1000; 0 if the flag is off
TotalDisplaced(nd, flag) ==
    LET displaced == RoundHalfAway(nansum_values(nd), 1000 * AmtUnit) * 1000
    IN IF flag THEN displaced ELSE 0

\* the largest power of two that is at most n, for n >= 1
RECURSIVE Pow2Floor(_)
Pow2Floor(n) == IF n < 2 THEN 1 ELSE 2 * Pow2Floor(n \div 2)

\* int(displaced * 2.8) for an integer displaced >= 0, as the double
\* multiplication computes it.  The literal 2.8 is the double
\* 2.8 - (2/5) * 2^-51, so the product is 2.8 * d - (2/5) * d * 2^-51 before
\* it is rounded to the nearest double.  When d is a multiple of 5 the exact
\* product 14 * d / 5 is an integer; with 2^e <= 14 * d / 5 < 2^(e+1) the
\* doubles around it are 2^(e-52) apart, and the product rounds to the double
\* below it when (2/5) * d * 2^-51 > 2^(e-53), that is when 8 * d > 5 * 2^e;
\* int() then yields one less than 14 * d / 5.  Otherwise the fraction of
\* 2.8 * d is at least 0.2 and int() yields the integer part of 2.8 * d.
TruncTimes2p8(d) ==
    IF d = 0 \/ d % 5 # 0
    THEN (d * 28) \div 10
    ELSE LET exact == (d \div 5) * 14
         IN IF 8 * d > 5 * Pow2Floor(exact) THEN exact - 1 ELSE exact

\* needs per week (BNPB Perka 7/2008), from the reported displaced total;
\* 17.5 is a double and displaced * 17.5 is exact, the divisions are integer
Needs(displaced) ==
    [rice |-> TruncTimes2p8(displaced),
     drinking_water |-> (displaced * 175) \div 10,
     water |-> displaced * 67,
     family_kits |-> displaced \div 5,
     toilets |-> displaced \div 20]

(* --------------------------- Result Assembler -------------------------- *)
\* the numbers shown in the impact table / summary text
ImpactTable(fatalities, displaced, total) ==
    [fatalities |-> fatalities, displaced |-> displaced,
     total |-> total, needs |-> Needs(displaced)]

(* ------------------------------ Classifier ----------------------------- *)
\* numpy.nanmin / numpy.nanmax of the grid: NaN when every cell is NaN
ValidCells(r) == {c \in DOMAIN r : ~r[c].nan}
nanmin(r) ==
    IF ValidCells(r) = {} THEN NaN
    ELSE LET c == CHOOSE c \in ValidCells(r) :
                      \A d \in ValidCells(r) : r[c].v <= r[d].v
         IN r[c]
nanmax(r) ==
    IF ValidCells(r) = {} THEN NaN
    ELSE LET c == CHOOSE c \in ValidCells(r) :
                      \A d \in ValidCells(r) : r[c].v >= r[d].v
         IN r[c]

\* the number of samples asked of numpy.linspace, and the unit its samples
\* are held in: a quarter of AmtUnit, so that every sample is an integer
NClasses == 5
LinUnit == (NClasses - 1) * AmtUnit

\* variant: the samples run from the maximum down to the minimum
linspace_Descending(lo, hi) ==
    [i \in 1..NClasses |->
        IF lo.nan \/ hi.nan THEN NaN
        ELSE Fl((NClasses - 1) * hi.v - (i - 1) * (hi.v - lo.v))]

\* numpy.linspace(lo, hi, 5): lo + i * (hi - lo) / 4, in LinUnit
linspace(lo, hi) ==
    [i \in 1..NClasses |->
        IF lo.nan \/ hi.nan THEN NaN
        ELSE Fl((NClasses - 1) * lo.v + (i - 1) * (hi.v - lo.v))]

\* a Python string that shows the number n
Str(n) == [str |-> TRUE, shows |-> n]

\* humanize_class(classes): one (lower, upper) pair of strings per class
\* boundary, the first from 0 to the first boundary, each next one from the
\* boundary before to its own
humanize_class(classes) ==
    [i \in DOMAIN classes |->
        <<Str(IF i = 1 THEN Zero ELSE classes[i - 1]), Str(classes[i])>>]

\* v == n in Python 2 for an int n: a str equals no number
PyEq(v, n) == IF v.str THEN FALSE ELSE ~v.shows.nan /\ v.shows.v = n

colours == <<"#EEFFEE", "#FFFF7F", "#E15500", "#E4001B", "#730000">>
NanQuantity == 999999

\* variant: a NaN boundary is reported as 0
StyleQuantity_NanAsZero(c) ==
    IF c.nan THEN 0 ELSE RoundHalfAway(c.v, LinUnit)

\* if classes[i] != classes[i]: classes[i] = 999999
\* quantity = int(round(classes[i]))
StyleQuantity(c) ==
    IF c.nan THEN NanQuantity ELSE RoundHalfAway(c.v, LinUnit)

\* the loop over interval_classes that builds style_classes; the i-th
\* colours.pop(0) yields colours[i]
StyleClasses(r) ==
    LET classes == linspace(nanmin(r), nanmax(r))
        interval_classes == humanize_class(classes)
    IN [i \in DOMAIN interval_classes |->
           [colour |-> colours[i],
            quantity |-> StyleQuantity(classes[i]),
            transparency |->
                IF PyEq(interval_classes[i][1], 0) THEN 100 ELSE 30,
            label |-> interval_classes[i]]]

\* L = Raster(R, ..., keywords = {...}, style_info = style_info)
Layer(r, prm, p, nf, ne, nd) ==
    LET total == TotalPopulation(p)
        fatalities == TotalFatalities(nf)
        displaced == TotalDisplaced(nd, prm.calculate_displaced_people)
        table == ImpactTable(fatalities, displaced, total)
    IN [data |-> r,
        keywords |-> [impact_summary |-> table,
                      total_population |-> total,
                      total_fatalities |-> fatalities,
                      fatalites_per_mmi |-> nf,
                      exposed_per_mmi |-> ne,
                      displaced_per_mmi |-> nd,
                      impact_table |-> table,
                      map_title |-> "Earthquake impact to population",
                      legend_notes |-> "Thousand separator is represented by '.'",
                      legend_units |-> "(people per cell)",
                      legend_title |-> "Population density"],
        style_info |-> [target_field |-> "None",
                        style_classes |-> StyleClasses(r)]]

(* ------------------------------ state ---------------------------------- *)
EmptyDict == [b \in {} |-> 0]
Put(d, k, val) == [b \in (DOMAIN d) \cup {k} |-> IF b = k THEN val ELSE d[b]]

\* the class-level parameters dictionary
Params(co, st, tb) ==
    [x |-> co.x, y |-> co.y, displacement_rate |-> tb,
     step |-> st, tolerance |-> tolerance,
     calculate_displaced_people |-> TRUE]

\* no call of run has been made yet
NotCalledYet ==
    /\ pc = "idle"
    /\ idx = 0
    /\ R = <<>>
    /\ number_of_exposed = EmptyDict
    /\ number_of_displaced = EmptyDict
    /\ number_of_fatalities = EmptyDict
    /\ selected = EmptyDict
    /\ calls = <<>>
    /\ returned = <<>>
    /\ raised = <<>>

\* no call of a handler of the batch runner has been made
NoCall == [op |-> "none", index |-> 0, check |-> FALSE, declined |-> FALSE,
           result |-> "None", runs |-> FALSE, task |-> [type |-> "none"]]
Quiet ==
    /\ started = <<>>
    /\ cb = [index |-> 0, label |-> 0]
    /\ all = 0
    /\ ran = <<>>
    /\ last = NoCall
    /\ nops = 0

\* no batch runner dialog is open
NoBatch ==
    /\ tasks = <<>>
    /\ status = <<>>
    /\ pdfs = {}
    /\ Quiet

\* the function object with its class-level parameters, and the two layers
\* every call of the session is given
Init ==
    /\ \E g \in Grids :
          /\ H = [c \in 1..NCells |-> HValues[HIndex(g[c])]]
          /\ P = [c \in 1..NCells |-> PValues[PIndex(g[c])]]
    /\ \E co \in Coefs, st \in Steps, tb \in Tables :
          parameters = Params(co, st, tb)
    /\ NotCalledYet
    /\ NoBatch

\* layers of a densely populated area: LargeP people in every cell
InitLarge ==
    /\ \E g \in Grids :
          H = [c \in 1..NCells |-> HValues[HIndex(g[c])]]
    /\ P = [c \in 1..NCells |-> LargeP]
    /\ \E st \in Steps, tb \in Tables :
          parameters = Params(FlatCoef, st, tb)
    /\ NotCalledYet
    /\ NoBatch

\* layers whose population grid has not the shape of the hazard grid: one cell
\* only, or one cell more
InitShapes ==
    /\ \E g \in Grids :
          H = [c \in 1..NCells |-> HValues[HIndex(g[c])]]
    /\ \E n \in {1, NCells + 1}, k \in DOMAIN PValues :
          P = [c \in 1..n |-> PValues[k]]
    /\ \E co \in Coefs, st \in Steps, tb \in Tables :
          parameters = Params(co, st, tb)
    /\ NotCalledYet
    /\ NoBatch

\* the caller switches parameters['calculate_displaced_people'] between runs
SetCalculateDisplaced ==
    /\ pc = "idle"
    /\ Len(calls) < MaxRuns
    /\ parameters' = [parameters EXCEPT
                         !.calculate_displaced_people = ~@]
    /\ UNCHANGED <<H, P, pc, idx, R, number_of_exposed, number_of_displaced,
                   number_of_fatalities, selected, calls, returned, raised>>
    /\ UNCHANGED batchVars

\* variant: the grid of the layer returned last is used again as R
Start_ReusesGrid ==
    /\ pc = "idle"
    /\ Len(calls) < MaxRuns
    /\ R' = IF returned = <<>> THEN [c \in DOMAIN H |-> Zero]
            ELSE returned[Len(returned)].data
    /\ number_of_exposed' = EmptyDict
    /\ number_of_displaced' = EmptyDict
    /\ number_of_fatalities' = EmptyDict
    /\ selected' = EmptyDict
    /\ idx' = 1
    /\ pc' = "loop"
    /\ calls' = Append(calls, parameters)
    /\ UNCHANGED <<H, P, parameters, returned, raised>>
    /\ UNCHANGED batchVars

\* run(): up to R = numpy.zeros(H.shape)
Start ==
    /\ pc = "idle"
    /\ Len(calls) < MaxRuns
    /\ R' = [c \in DOMAIN H |-> Zero]
    /\ number_of_exposed' = EmptyDict
    /\ number_of_displaced' = EmptyDict
    /\ number_of_fatalities' = EmptyDict
    /\ selected' = EmptyDict
    /\ idx' = 1
    /\ pc' = "loop"
    /\ calls' = Append(calls, parameters)
    /\ UNCHANGED <<H, P, parameters, returned, raised>>
    /\ UNCHANGED batchVars

\* the iteration for mmi raises: ValueError from numpy when the shapes of H
\* and P cannot be combined, else InaSAFEError made from the KeyError of the
\* rate table
Raises(mmi) ==
    \/ ~ShapesFit(H, P)
    \/ ~RateOf(parameters.displacement_rate, mmi).found

\* variant: the mask is applied to P itself, I being the same array
BandStep_MasksInPlace ==
    /\ pc = "loop"
    /\ idx <= Len(mmi_range)
    /\ ~Raises(mmi_range[idx])
    /\ LET mmi == mmi_range[idx]
           I == BandI(mmi, parameters)
           F == BandF(mmi, parameters)
           D == BandD(mmi, parameters)
       IN /\ P' = I
          /\ R' = [c \in DOMAIN R |-> FAdd(R[c], D[c])]
          /\ number_of_exposed' = Put(number_of_exposed, mmi, nansum(I))
          /\ number_of_displaced' = Put(number_of_displaced, mmi, nansum(D))
          /\ number_of_fatalities' = Put(number_of_fatalities, mmi, nansum(F))
          /\ selected' = Put(selected, mmi,
                 {c \in DOMAIN H : InBand(H[c], mmi, parameters.step)})
    /\ idx' = idx + 1
    /\ pc' = IF idx = Len(mmi_range) THEN "threshold" ELSE "loop"
    /\ UNCHANGED <<H, parameters, calls, returned, raised>>
    /\ UNCHANGED batchVars

\* one iteration of: for mmi in mmi_range
BandStep ==
    /\ pc = "loop"
    /\ idx <= Len(mmi_range)
    /\ ~Raises(mmi_range[idx])
    /\ LET mmi == mmi_range[idx]
           I == BandI(mmi, parameters)
           F == BandF(mmi, parameters)
           D == BandD(mmi, parameters)
       IN /\ R' = [c \in DOMAIN R |-> FAdd(R[c], D[c])]
          /\ number_of_exposed' = Put(number_of_exposed, mmi, nansum(I))
          /\ number_of_displaced' = Put(number_of_displaced, mmi, nansum(D))
          /\ number_of_fatalities' = Put(number_of_fatalities, mmi, nansum(F))
          /\ selected' = Put(selected, mmi,
                 {c \in DOMAIN H : InBand(H[c], mmi, parameters.step)})
    /\ idx' = idx + 1
    /\ pc' = IF idx = Len(mmi_range) THEN "threshold" ELSE "loop"
    /\ UNCHANGED <<H, P, parameters, calls, returned, raised>>
    /\ UNCHANGED batchVars

\* an iteration that raises leaves run: nothing is returned, the locals go
\* out of scope; msg = 'mmi = %i, I = %s, Error msg: %s' % (mmi, I, e)
BandFail ==
    /\ pc = "loop"
    /\ idx <= Len(mmi_range)
    /\ Raises(mmi_range[idx])
    /\ LET mmi == mmi_range[idx]
       IN raised' = Append(raised,
              IF ~ShapesFit(H, P)
              THEN [call |-> Len(calls), type |-> "ValueError",
                    at |-> mmi, message |-> "shape mismatch"]
              ELSE [call |-> Len(calls), type |-> "InaSAFEError",
                    at |-> mmi, message |-> <<"mmi = ", mmi>>])
    /\ pc' = "idle"
    /\ idx' = 0
    /\ R' = <<>>
    /\ number_of_exposed' = EmptyDict
    /\ number_of_displaced' = EmptyDict
    /\ number_of_fatalities' = EmptyDict
    /\ UNCHANGED <<H, P, parameters, selected, calls, returned>>
    /\ UNCHANGED batchVars

\* R[R < tolerance] = numpy.nan
Threshold ==
    /\ pc = "threshold"
    /\ R' = [c \in DOMAIN R |-> ThresholdCell(R[c], parameters.tolerance)]
    /\ pc' = "report"
    /\ UNCHANGED <<H, P, parameters, idx, number_of_exposed,
                   number_of_displaced, number_of_fatalities, selected,
                   calls, returned, raised>>
    /\ UNCHANGED batchVars

\* totals, tables, Raster(...) and return; the locals go out of scope
Report ==
    /\ pc = "report"
    /\ returned' = Append(returned,
                          Layer(R, parameters, P, number_of_fatalities,
                                number_of_exposed, number_of_displaced))
    /\ pc' = "idle"
    /\ idx' = 0
    /\ R' = <<>>
    /\ number_of_exposed' = EmptyDict
    /\ number_of_displaced' = EmptyDict
    /\ number_of_fatalities' = EmptyDict
    /\ UNCHANGED <<H, P, parameters, selected, calls, raised>>
    /\ UNCHANGED batchVars

Next ==
    \/ SetCalculateDisplaced
    \/ Start
    \/ BandStep
    \/ BandFail
    \/ Threshold
    \/ Report

Spec == Init /\ [][Next]_vars

\* the same function on the layers of InitLarge and of InitShapes
SpecLarge == InitLarge /\ [][Next]_vars
SpecShapes == InitShapes /\ [][Next]_vars

TypeOK ==
    /\ pc \in {"idle", "loop", "threshold", "report"}
    /\ Len(calls) <= MaxRuns
    /\ Len(returned) + Len(raised) <= Len(calls)

\* every power of ten the runs form is exactly representable in RateUnit
PowExact ==
    \A b \in Bands :
        b >= FatalityCutoff => parameters.x * b - parameters.y + RateExp >= 0

(* ------------------------------ claims --------------------------------- *)
Kw(i) == returned[i].keywords
SumExposed(i) == SumOver(Kw(i).exposed_per_mmi, DOMAIN Kw(i).exposed_per_mmi)
SumValid(p) ==
    LET S == {c \in DOMAIN p : ~p[c].nan}
    IN SumOver([c \in S |-> p[c].v], S)

\* C1: fatality_rate(mmi) is exactly 0 for every mmi < 4 whatever the
\* coefficients, so every band below 4 records fatalites_per_mmi = 0, in the
\* loop and in every returned layer.
C1_NoFatalitiesBelowFour ==
    /\ \A mmi \in 0..3 : fatality_rate(mmi, parameters) = 0
    /\ \A b \in DOMAIN number_of_fatalities :
           b < 4 => number_of_fatalities[b] = 0
    /\ \A i \in DOMAIN returned :
           \A b \in DOMAIN Kw(i).fatalites_per_mmi :
               b < 4 => Kw(i).fatalites_per_mmi[b] = 0

\* a returned layer with people exposed in a band below 4, under coefficients
\* whose curve is not zero there
C1_Witness ==
    \E i \in DOMAIN returned : \E b \in {2, 3} :
        /\ Kw(i).exposed_per_mmi[b] > 0
        /\ Pow10(calls[i].x * b - calls[i].y) > 0
        /\ Kw(i).fatalites_per_mmi[b] = 0

\* C2 (as stated): after run, in every band,
\* 0 <= displaced_per_mmi <= exposed_per_mmi - fatalites_per_mmi.
C2_Original ==
    \A i \in DOMAIN returned : \A b \in Bands :
        /\ 0 <= Kw(i).displaced_per_mmi[b]
        /\ Kw(i).displaced_per_mmi[b] <=
               Kw(i).exposed_per_mmi[b] * RateUnit - Kw(i).fatalites_per_mmi[b]

\* C2 (amended): after run, in every band, displaced_per_mmi is at least 0
\* and at most max(0, exposed_per_mmi - fatalites_per_mmi): the bound of the
\* claim holds whenever the fatalities do not exceed the exposed population,
\* and displaced_per_mmi is 0 otherwise.
C2_DisplacedBounded ==
    \A i \in DOMAIN returned : \A b \in Bands :
        LET room == Kw(i).exposed_per_mmi[b] * RateUnit
                       - Kw(i).fatalites_per_mmi[b]
        IN /\ 0 <= Kw(i).displaced_per_mmi[b]
           /\ Kw(i).displaced_per_mmi[b] <= (IF room > 0 THEN room ELSE 0)

\* a returned layer with a band where people die and the displaced are
\* exactly the rest of the exposed
C2_Witness ==
    \E i \in DOMAIN returned : \E b \in Bands :
        /\ Kw(i).fatalites_per_mmi[b] > 0
        /\ Kw(i).displaced_per_mmi[b] > 0
        /\ Kw(i).displaced_per_mmi[b] =
               Kw(i).exposed_per_mmi[b] * RateUnit - Kw(i).fatalites_per_mmi[b]

\* the number of bands of the finished loop that selected cell c
TimesSelected(c) == Cardinality({b \in DOMAIN selected : c \in selected[b]})
InsideRange(h, step) ==
    /\ ~h.nan
    /\ h.v > MmiStart * MmiUnit - step
    /\ h.v <= (MmiStop - 1) * MmiUnit + step
Partitioned ==
    \A c \in DOMAIN H :
        TimesSelected(c) = (IF InsideRange(H[c], parameters.step) THEN 1 ELSE 0)

\* C3 (as stated): for the configured step, once the loop is over every cell
\* with intensity in (min_band - step, max_band + step] was selected by
\* exactly one band and every other cell by none.
C3_Original == DOMAIN selected = Bands => Partitioned

\* C3 (amended): the same, when the configured step is 0.5 (the default).
C3_PartitionAtHalfStep ==
    (DOMAIN selected = Bands /\ parameters.step = 5) => Partitioned

\* step 0.5, the loop is over, a cell on the border of bands 2 and 3 was
\* selected by band 2 only and a cell of intensity 10 by no band
C3_Witness ==
    /\ DOMAIN selected = Bands
    /\ parameters.step = 5
    /\ \E c, d \in DOMAIN H :
           /\ H[c] = Fl(25) /\ c \in selected[2] /\ TimesSelected(c) = 1
           /\ H[d] = Fl(100) /\ TimesSelected(d) = 0

\* C4 (as stated): the sum of exposed_per_mmi over the bands never exceeds
\* the total_population the same run reports.
C4_Original ==
    \A i \in DOMAIN returned :
        SumExposed(i) <= Kw(i).total_population * PopUnit

\* C4 (amended): when the configured step is at most 0.5, the sum of
\* exposed_per_mmi never exceeds the unrounded sum of the non-missing
\* population cells, and so exceeds the reported total_population (that sum
\* rounded to the nearest 1000) by at most 500.
C4_ExposedWithinPopulation ==
    \A i \in DOMAIN returned :
        calls[i].step <= 5 =>
            /\ SumExposed(i) <= SumValid(P)
            /\ SumExposed(i) <= (Kw(i).total_population + 500) * PopUnit

\* a run with step 0.5 in which every person is exposed and the reported
\* total_population is rounded below the exposed sum
C4_Witness ==
    \E i \in DOMAIN returned :
        /\ calls[i].step = 5
        /\ SumExposed(i) > 0
        /\ SumExposed(i) = SumValid(P)
        /\ SumExposed(i) > Kw(i).total_population * PopUnit

\* C5: after thresholding, and in every returned grid, each cell is no-data
\* or at least tolerance.
C5_NoCellBelowTolerance ==
    /\ pc = "report" =>
           \A c \in DOMAIN R : R[c].nan \/ R[c].v >= parameters.tolerance
    /\ \A i \in DOMAIN returned : \A c \in DOMAIN returned[i].data :
           \/ returned[i].data[c].nan
           \/ returned[i].data[c].v >= calls[i].tolerance

\* a returned grid with a kept cell and a cell that held a positive value
\* below tolerance (band 7) and is now no-data
C5_Witness ==
    \E i \in DOMAIN returned : \E c, d \in DOMAIN H :
        /\ calls[i].step = 5
        /\ BandD(7, calls[i])[c].v \in 1..(calls[i].tolerance - 1)
        /\ returned[i].data[c].nan
        /\ ~returned[i].data[d].nan
\* C6 (as stated): an aggregate of the per-band fatalities that rounds to
\* less than 50 is reported as total_fatalities = 0, and an aggregate of
\* exactly 50 is reported as 50.
C6_Original ==
    \A i \in DOMAIN returned :
        LET agg == SumOver(Kw(i).fatalites_per_mmi,
                           DOMAIN Kw(i).fatalites_per_mmi)
        IN /\ (agg + AmtUnit \div 2) \div AmtUnit < 50
                  => Kw(i).total_fatalities = 0
           /\ agg = 50 * AmtUnit => Kw(i).total_fatalities = 50

\* C7: total_fatalities is a non-negative multiple of 1000 and lies within
\* 500 of the sum of the per-band fatalities (it is that sum rounded to the
\* nearest 1000; the cut below 50 then changes nothing).
C7_FatalitiesToNearestThousand ==
    \A i \in DOMAIN returned :
        LET agg == SumOver(Kw(i).fatalites_per_mmi,
                           DOMAIN Kw(i).fatalites_per_mmi)
            tf == Kw(i).total_fatalities
        IN /\ tf >= 0
           /\ tf % 1000 = 0
           /\ tf * AmtUnit - agg <= 500 * AmtUnit
           /\ agg - tf * AmtUnit <= 500 * AmtUnit

\* a returned layer whose fatalities are not a multiple of 1000 and are
\* reported as a positive total
C7_Witness ==
    \E i \in DOMAIN returned :
        LET agg == SumOver(Kw(i).fatalites_per_mmi,
                           DOMAIN Kw(i).fatalites_per_mmi)
        IN /\ agg % (1000 * AmtUnit) # 0
           /\ Kw(i).total_fatalities >= 1000

\* C8: total_population is a multiple of 1000 within 500 of the sum of all
\* non-missing cells of P, cells in no band included.
C8_PopulationToNearestThousand ==
    \A i \in DOMAIN returned :
        LET tp == Kw(i).total_population
        IN /\ tp % 1000 = 0
           /\ tp * PopUnit - SumValid(P) <= 500 * PopUnit
           /\ SumValid(P) - tp * PopUnit <= 500 * PopUnit

\* a returned layer over a grid with a missing cell and a populated cell that
\* no band selected, which alone makes total_population 1000
C8_Witness ==
    \E i \in DOMAIN returned : \E c, d \in DOMAIN P :
        /\ P[c].nan
        /\ P[d] = Fl(5000)
        /\ \A b \in Bands : ~InBand(H[d], b, calls[i].step)
        /\ Kw(i).total_population = 1000

\* C9 (as stated): the returned layer carries total_population,
\* total_fatalities and total_displaced and the three per-band mappings, each
\* keyed by every band of mmi_range.
C9_Original ==
    \A i \in DOMAIN returned :
        /\ {"total_population", "total_fatalities", "total_displaced"}
               \subseteq DOMAIN Kw(i)
        /\ {"exposed_per_mmi", "fatalites_per_mmi", "displaced_per_mmi"}
               \subseteq DOMAIN Kw(i)
        /\ DOMAIN Kw(i).exposed_per_mmi = Bands
        /\ DOMAIN Kw(i).fatalites_per_mmi = Bands
        /\ DOMAIN Kw(i).displaced_per_mmi = Bands

\* the parameters of call i and call j differ in calculate_displaced_people
\* only, call i having it on
OnOffPair(i, j) ==
    /\ calls[i].calculate_displaced_people
    /\ calls[j] = [calls[i] EXCEPT !.calculate_displaced_people = FALSE]

\* C10: two runs on the same grids whose parameters differ only in
\* calculate_displaced_people return the same grid, per-band mappings,
\* total_population and total_fatalities; the run with the flag off reports
\* 0 displaced and needs that are all 0.
C10_FlagChangesOnlyDisplacedTotal ==
    \A i, j \in DOMAIN returned :
        OnOffPair(i, j) =>
            /\ returned[i].data = returned[j].data
            /\ Kw(i).displaced_per_mmi = Kw(j).displaced_per_mmi
            /\ Kw(i).exposed_per_mmi = Kw(j).exposed_per_mmi
            /\ Kw(i).fatalites_per_mmi = Kw(j).fatalites_per_mmi
            /\ Kw(i).total_population = Kw(j).total_population
            /\ Kw(i).total_fatalities = Kw(j).total_fatalities
            /\ Kw(j).impact_table.fatalities = Kw(i).impact_table.fatalities
            /\ Kw(j).impact_table.total = Kw(i).impact_table.total
            /\ Kw(j).impact_table.displaced = 0
            /\ \A n \in DOMAIN Kw(j).impact_table.needs :
                   Kw(j).impact_table.needs[n] = 0

\* a run with the flag on that reports displaced people and needs, and a run
\* with the flag off on the same grids
C10_Witness ==
    \E i, j \in DOMAIN returned :
        /\ OnOffPair(i, j)
        /\ Kw(i).impact_table.displaced >= 1000
        /\ Kw(i).impact_table.needs.toilets > 0
        /\ \E c \in DOMAIN H : ~returned[j].data[c].nan
\* C11 (as stated): the needs of every returned layer are the reported
\* displaced total times 2.8 (rice), times 17.5 (drinking water), times 67
\* (water), divided by 5 (family kits) and by 20 (toilets), each truncated to
\* an integer, and all of them are 0 when the displaced total is 0.
C11_Original ==
    \A i \in DOMAIN returned :
        LET displaced == Kw(i).impact_table.displaced
            needs == Kw(i).impact_table.needs
        IN /\ needs.rice = (displaced * 28) \div 10
           /\ needs.drinking_water = (displaced * 175) \div 10
           /\ needs.water = displaced * 67
           /\ needs.family_kits = displaced \div 5
           /\ needs.toilets = displaced \div 20
           /\ displaced = 0 =>
                  needs = [rice |-> 0, drinking_water |-> 0, water |-> 0,
                           family_kits |-> 0, toilets |-> 0]
Styles(i) == returned[i].style_info.style_classes

\* C12: whenever run has returned, the classification of every returned
\* layer has exactly 5 classes and their quantities, in order, never decrease.
C12_FiveOrderedClasses ==
    pc = "idle" =>
        \A i \in DOMAIN returned :
            /\ Len(Styles(i)) = 5
            /\ \A k \in 1..4 :
                   Styles(i)[k].quantity <= Styles(i)[k + 1].quantity

\* a returned layer whose grid holds two different values, so that its class
\* quantities do rise from the first to the last
C12_Witness ==
    \E i \in DOMAIN returned :
        /\ nanmin(returned[i].data) # nanmax(returned[i].data)
        /\ Styles(i)[1].quantity < Styles(i)[3].quantity
        /\ Styles(i)[3].quantity < Styles(i)[5].quantity

\* C13 (as stated): in every returned layer a class whose minimum is 0 has
\* transparency 100 and every other class has transparency 30; the first
\* class, which starts at 0, is the fully transparent one.
C13_Original ==
    \A i \in DOMAIN returned :
        /\ \A k \in DOMAIN Styles(i) :
               Styles(i)[k].transparency =
                   (IF Styles(i)[k].label[1].shows = Zero THEN 100 ELSE 30)
        /\ Styles(i)[1].transparency = 100

\* the population grid is all no-data and the rate table has every band
AllNoData(p) == \A c \in DOMAIN p : p[c].nan
CompleteTable(prm) == Bands \subseteq DOMAIN prm.displacement_rate

\* C14: when every cell of the population grid is no-data (and the rate table
\* has an entry for every band), no call raises, every finished call has
\* returned a layer, and in every returned layer the per-band statistics and
\* the headline totals are 0, every cell of the grid is no-data and the
\* classification has its 5 classes.
C14_AllNoDataPopulation ==
    (AllNoData(P) /\ CompleteTable(parameters)) =>
        /\ raised = <<>>
        /\ pc = "idle" => Len(returned) = Len(calls)
        /\ \A i \in DOMAIN returned :
               /\ \A b \in Bands :
                      /\ Kw(i).exposed_per_mmi[b] = 0
                      /\ Kw(i).fatalites_per_mmi[b] = 0
                      /\ Kw(i).displaced_per_mmi[b] = 0
               /\ Kw(i).total_population = 0
               /\ Kw(i).total_fatalities = 0
               /\ Kw(i).impact_table.displaced = 0
               /\ \A c \in DOMAIN returned[i].data : returned[i].data[c].nan
               /\ Len(Styles(i)) = 5

\* a layer returned for an all no-data population grid, with a cell whose
\* intensity lies in a band
C14_Witness ==
    /\ AllNoData(P)
    /\ returned # <<>>
    /\ \E c \in DOMAIN H : \E b \in Bands : InBand(H[c], b, parameters.step)

\* C15: whenever run has returned, in every returned layer each class
\* boundary that is NaN is reported as the quantity 999999, and every
\* quantity is a natural number.
C15_NanBoundaryIsSentinel ==
    pc = "idle" =>
        \A i \in DOMAIN returned :
            \A classes \in {linspace(nanmin(returned[i].data),
                                     nanmax(returned[i].data))} :
                \A k \in DOMAIN Styles(i) :
                    /\ Styles(i)[k].quantity \in Nat
                    /\ classes[k].nan => Styles(i)[k].quantity = 999999

\* a returned layer whose grid is all no-data: its five boundaries are NaN
\* and its five quantities 999999
C15_Witness ==
    \E i \in DOMAIN returned :
        /\ ValidCells(returned[i].data) = {}
        /\ \A k \in 1..5 : Styles(i)[k].quantity = 999999
\* C16 (as stated): when the hazard grid and the population grid have
\* different shapes, every call fails before any band is processed: no band
\* statistics are recorded and no layer is returned.
C16_Original ==
    Len(H) # Len(P) =>
        /\ returned = <<>>
        /\ number_of_exposed = EmptyDict
        /\ number_of_displaced = EmptyDict
        /\ number_of_fatalities = EmptyDict
        /\ pc \in {"idle", "loop"}
        /\ pc = "idle" => Len(raised) = Len(calls)

\* the bands of mmi_range the rate table has no entry for
MissingBands(prm) == Bands \ DOMAIN prm.displacement_rate

\* C17: when the rate table has no entry for a band of mmi_range, every call
\* ends with an InaSAFEError whose message names that band, no layer is ever
\* returned, and no displaced count is recorded for the band.
C17_MissingRateAborts ==
    MissingBands(parameters) # {} =>
        /\ returned = <<>>
        /\ pc \in {"idle", "loop"}
        /\ pc = "idle" => Len(raised) = Len(calls)
        /\ \A k \in DOMAIN raised :
               /\ raised[k].type = "InaSAFEError"
               /\ raised[k].message[2] \in MissingBands(parameters)
        /\ \A b \in MissingBands(parameters) :
               b \notin DOMAIN number_of_displaced

\* a call that got as far as the band without an entry and raised there,
\* after the bands before it had been processed
C17_Witness ==
    /\ raised # <<>>
    /\ raised[1].message = <<"mmi = ", MissingBand>>
    /\ selected # EmptyDict
    /\ returned = <<>>

\* how call n ended
RaisedBefore(n) == Cardinality({k \in DOMAIN raised : raised[k].call < n})
Outcome(n) ==
    IF \E k \in DOMAIN raised : raised[k].call = n
    THEN LET k == CHOOSE k \in DOMAIN raised : raised[k].call = n
         IN [raises |-> TRUE, type |-> raised[k].type,
             message |-> raised[k].message]
    ELSE [raises |-> FALSE, layer |-> returned[n - RaisedBefore(n)]]

\* C18: whenever no call is under way, two calls on the same layers with
\* identical parameters have ended the same way: with identical layers
\* (grid, statistics, classification) or with the same error.
C18_RunsRepeatable ==
    pc = "idle" =>
        \A i \in DOMAIN calls, j \in DOMAIN calls :
            (i < j /\ calls[i] = calls[j]) => Outcome(i) = Outcome(j)

\* two calls with the same parameters have both returned a layer whose grid
\* has a cell with displaced people
C18_Witness ==
    /\ Len(returned) >= 2
    /\ calls[1] = calls[2]
    /\ ValidCells(returned[2].data) # {}

\* C19: no step of a call changes the hazard grid, the population grid or
\* the parameters (rate table included).
C19_InputsUnchanged ==
    [][(pc # "idle" \/ pc' # "idle") =>
           (H' = H /\ P' = P /\ parameters' = parameters)]_vars

\* a call has accumulated and thresholded R: one cell holds displaced
\* people, another has become no-data, and the population grid still holds
\* a cell outside every band
C19_Witness ==
    /\ pc = "report"
    /\ \E c \in DOMAIN R, d \in DOMAIN R : ~R[c].nan /\ R[d].nan
    /\ \E c \in DOMAIN P :
           /\ FGt(P[c], Zero)
           /\ \A b \in Bands : ~InBand(H[c], b, parameters.step)

\* the cells of band b whose population is valid
ValidInBand(b) ==
    {c \in DOMAIN H : InBand(H[c], b, parameters.step) /\ ~P[c].nan}

\* C20: whenever run has returned, in every returned layer the exposed,
\* fatality and displaced counts of each band are the sums over the cells of
\* the band with a valid population, and total_population is the rounded sum
\* of the valid cells: a no-data cell adds 0 and never voids the count of the
\* others.
C20_NoDataCountsZero ==
    (pc = "idle" /\ returned # <<>>) =>
        /\ \A b \in Bands :
               \A S \in {ValidInBand(b)} :
               \A fr \in {fatality_rate(b, parameters)} :
               \A dr \in {RateOf(parameters.displacement_rate, b).rate} :
               \A exposed \in {SumOver([c \in S |-> P[c].v], S)} :
                   \A i \in DOMAIN returned :
                       /\ Kw(i).exposed_per_mmi[b] = exposed
                       /\ Kw(i).fatalites_per_mmi[b] = fr * exposed
                       /\ Kw(i).displaced_per_mmi[b] =
                              (IF dr > fr THEN (dr - fr) * exposed ELSE 0)
        /\ \A total \in {RoundHalfAway(SumValid(P), 1000 * PopUnit) * 1000} :
               \A i \in DOMAIN returned : Kw(i).total_population = total

\* a returned layer with a band that holds a no-data cell and a populated
\* cell, whose people are counted as exposed, dead and displaced
C20_Witness ==
    \E i \in DOMAIN returned : \E b \in Bands :
        /\ \E c \in DOMAIN H : InBand(H[c], b, parameters.step) /\ P[c].nan
        /\ ValidInBand(b) # {}
        /\ Kw(i).exposed_per_mmi[b] > 0
        /\ Kw(i).fatalites_per_mmi[b] > 0
        /\ Kw(i).displaced_per_mmi[b] > 0
\* the bands whose interval holds the intensity of cell c, and what direct
\* assignment from band b would put in cell c
BandsOf(c) == {b \in Bands : InBand(H[c], b, parameters.step)}
Assigned(b, c) ==
    LET dr == RateOf(parameters.displacement_rate, b).rate
        fr == fatality_rate(b, parameters)
    IN IF ~P[c].nan /\ dr * P[c].v > fr * P[c].v
       THEN Fl((dr - fr) * P[c].v) ELSE Zero
DirectlyAssigned ==
    \A c \in DOMAIN R :
        \/ BandsOf(c) = {} /\ R[c] = Zero
        \/ \E b \in BandsOf(c) : R[c] = Assigned(b, c)

\* C22 (as stated): when the loop is over and R is not yet thresholded, each
\* cell of R holds the net displacement of the band that contains the cell
\* (rate * P - fatality rate * P when the first exceeds the second, else 0),
\* and 0 when no band contains it.
C22_Original == pc = "threshold" => DirectlyAssigned

\* C22 (amended): the same, when the configured step is at most 0.5, so that
\* no cell is in two bands.
C22_AccumulationIsAssignment ==
    (pc = "threshold" /\ parameters.step <= DefaultStep) =>
        /\ \A c \in DOMAIN R : Cardinality(BandsOf(c)) <= 1
        /\ DirectlyAssigned

\* step at most 0.5, the loop is over: one cell holds the displaced of its
\* band less the fatalities, another cell lies in no band and holds 0
C22_Witness ==
    /\ pc = "threshold"
    /\ parameters.step <= DefaultStep
    /\ \E c \in DOMAIN R : \E b \in BandsOf(c) :
           /\ fatality_rate(b, parameters) > 0
           /\ FGt(R[c], Zero)
           /\ R[c] = Assigned(b, c)
    /\ \E c \in DOMAIN R : BandsOf(c) = {} /\ ~P[c].nan /\ R[c] = Zero
(* ============================ batch runner ============================= *)
MaxTasks == 2
MaxOps == 2

\* TaskModel's status values; NoStatus stands for a task dictionary without
\* the 'status' key, as TaskModel.populate makes it
Normal == 0
Running == 1
Fail == 3
Success == 4
NoStatus == 0 - 1

\* names of the file system: a path is the sequence of its components, a
\* component has a base name and an extension
Dir == [base |-> 0, ext |-> ""]
File(n) == [base |-> n, ext |-> "py"]

\* tasks as TaskModel.populate makes them: 'source' is
\* join(join(path, file), file) and 'label' the file or the scenario name,
\* numbered n here.  What the
\* collaborators in macro will answer is written in the values: 'layers'
\* says whether macro.addLayers finds the files, 'function' and
\* 'aggregation' whether macro.setFunctionId and macro.setAggregation accept
\* them ("none" is the None of a scenario without an aggregation layer)
ScriptTask(n) ==
    [type |-> "script", label |-> n, source |-> <<Dir, File(n), File(n)>>]
ScenarioTask(n, ly, fn, ag) ==
    [type |-> "scenario", label |-> n, layers |-> ly, function |-> fn,
     aggregation |-> ag]
TaskKinds(n) ==
    {ScriptTask(n),
     ScenarioTask(n, "found", "known", "none"),
     ScenarioTask(n, "missing", "known", "none"),
     ScenarioTask(n, "found", "unknown", "valid")}

\* the dictionaries a caller may hand to runScenarioTask: 'function' and
\* 'extent' are optional keys, an extent is the list of the pieces between
\* its commas, "num" a piece float() accepts and "word" one it rejects.
\* Each dictionary differs from a scenario that starts in one key at most
Extents ==
    {<<"num", "num", "num", "num">>, <<"num", "num", "num">>,
     <<"num", "num", "word", "num">>}
ScenarioInputs(n) ==
    LET good == ScenarioTask(n, "found", "known", "valid")
        bare == [type |-> "scenario", label |-> n, layers |-> "found",
                 aggregation |-> "none"]
    IN {bare,
        good,
        [good EXCEPT !.layers = "missing"],
        [good EXCEPT !.function = "unknown"],
        [good EXCEPT !.aggregation = "invalid"]}
       \cup {good @@ ("extent" :> e) : e \in Extents}

\* myModule, _ = os.path.splitext(theFilename): the extension of the last
\* component is cut off, the components before it stay
ModuleOf(source) ==
    [k \in DOMAIN source |-> IF k = Len(source)
                              THEN [source[k] EXCEPT !.ext = ""]
                              ELSE source[k]]
\* __import__(name) in Python 2: "Import by filename is not supported" for a
\* name with a path separator
ImportRaises(name) == Len(name) > 1

\* variant: the number of pieces of the extent is not tested
ExtentAccepted_AnyCount(e) == \A k \in DOMAIN e : e[k] = "num"

\* myCount == 4 and float(i) succeeds for every piece
ExtentAccepted(e) == Len(e) = 4 /\ \A k \in DOMAIN e : e[k] = "num"

\* runScenarioTask reaches macro.runScenario(onAnalysisDone)
Starts(t) ==
    /\ t.layers = "found"
    /\ "function" \in DOMAIN t => t.function = "known"
    /\ t.aggregation # "none" => t.aggregation = "valid"
    /\ "extent" \in DOMAIN t => ExtentAccepted(t.extent)

\* runScenarioTask(theIndex, theTask): what it returns and the analyses
\* under way after it
runScenarioTask(i, t) ==
    IF Starts(t)
    THEN [result |-> "True",
          started |-> Append(started, [index |-> i, label |-> t.label])]
    ELSE [result |-> "False", started |-> started]

\* checkExistingPDFReport(path, titles): True when no report of these titles
\* exists, else the answer given in the message box
checkExistingPDFReport(titles, answer) ==
    IF titles \cap pdfs = {} THEN TRUE ELSE answer

\* variant: a scenario that could not be started is marked Fail
runTask_MarksFail(i, check, answer) ==
    LET t == tasks[i]
        running == [status EXCEPT ![i] = Running]
    IN IF t.type = "script"
       THEN [status |-> running, started |-> started, declined |-> FALSE,
             result |-> IF ImportRaises(ModuleOf(t.source))
                        THEN "ImportError" ELSE "None"]
       ELSE IF check /\ ~checkExistingPDFReport({t.label}, answer)
       THEN [status |-> running, started |-> started, declined |-> TRUE,
             result |-> "AttributeError"]
       ELSE [status |-> IF Starts(t) THEN running
                        ELSE [status EXCEPT ![i] = Fail],
             started |-> runScenarioTask(i, t).started,
             declined |-> FALSE, result |-> "None"]

\* runTask(theIndex, theCheckExistingReport): the statuses and the analyses
\* under way after it, and how it ends.  A script task ends in the
\* ImportError of runScriptTask; a declined overwrite ends in the
\* AttributeError of theIndex.TaskModel (theIndex is an int); every other
\* path falls off the end of the function and returns None
runTask(i, check, answer) ==
    LET t == tasks[i]
        running == [status EXCEPT ![i] = Running]
    IN IF t.type = "script"
       THEN [status |-> running, started |-> started, declined |-> FALSE,
             result |-> IF ImportRaises(ModuleOf(t.source))
                        THEN "ImportError" ELSE "None"]
       ELSE IF check /\ ~checkExistingPDFReport({t.label}, answer)
       THEN [status |-> running, started |-> started, declined |-> TRUE,
             result |-> "AttributeError"]
       ELSE [status |-> running,
             started |-> runScenarioTask(i, t).started,
             declined |-> FALSE, result |-> "None"]

Exceptions == {"ImportError", "AttributeError"}
NoCb == [index |-> 0, label |-> 0]

\* a batch runner dialog just populated, with no report file on disk or with
\* the reports of every task left by an earlier session; the impact function
\* is not called
InitBatch ==
    /\ tasks \in {ts \in [1..MaxTasks -> UNION {TaskKinds(n) : n \in 1..MaxTasks}] :
                     \A n \in 1..MaxTasks : ts[n].label = n}
    /\ status = [n \in 1..MaxTasks |-> NoStatus]
    /\ pdfs \in {{}, 1..MaxTasks}
    /\ started = <<>>
    /\ cb = NoCb
    /\ all = 0
    /\ ran = <<>>
    /\ last = NoCall
    /\ nops = 0
    /\ H = <<>>
    /\ P = <<>>
    /\ parameters = Params(FlatCoef, DefaultStep, DefaultDisplacementRate)
    /\ NotCalledYet

Call(op, i, check, declined, result, runs, t) ==
    [op |-> op, index |-> i, check |-> check, declined |-> declined,
     result |-> result, runs |-> runs, task |-> t]

\* the run button of a task is clicked: runClicked is connected to runTask
RunClicked ==
    /\ all = 0 /\ cb = NoCb /\ nops < MaxOps
    /\ \E i \in DOMAIN tasks, answer \in BOOLEAN :
          LET o == runTask(i, TRUE, answer)
          IN /\ status' = o.status
             /\ started' = o.started
             /\ last' = Call("runTask", i, TRUE, o.declined, o.result,
                             Len(o.started) > Len(started), tasks[i])
    /\ nops' = nops + 1
    /\ UNCHANGED <<tasks, pdfs, cb, all, ran>>
    /\ UNCHANGED engineVars

\* a caller runs runScenarioTask itself, for the row i
CallRunScenarioTask ==
    /\ all = 0 /\ cb = NoCb /\ nops < MaxOps
    /\ \E i \in DOMAIN tasks : \E t \in ScenarioInputs(i) :
          LET o == runScenarioTask(i, t)
          IN /\ started' = o.started
             /\ last' = Call("runScenarioTask", i, FALSE, FALSE, o.result,
                             Len(o.started) > Len(started), t)
    /\ nops' = nops + 1
    /\ UNCHANGED <<tasks, status, pdfs, cb, all, ran>>
    /\ UNCHANGED engineVars

\* runAllTask up to its loop
runAllTask ==
    /\ all = 0 /\ cb = NoCb /\ nops < MaxOps
    /\ \E answer \in BOOLEAN :
          LET titles == {tasks[n].label : n \in DOMAIN tasks}
              declined == ~checkExistingPDFReport(titles, answer)
          IN /\ all' = IF declined THEN 0 ELSE 1
             /\ last' = Call("runAllTask", 0, TRUE, declined,
                             IF declined THEN "False" ELSE "running",
                             FALSE, [type |-> "all"])
    /\ ran' = <<>>
    /\ nops' = nops + 1
    /\ UNCHANGED <<tasks, status, pdfs, started, cb>>
    /\ UNCHANGED engineVars

\* one iteration of the loop of runAllTask: self.runTask(myIndex, False);
\* an exception of runTask leaves runAllTask
RunAllNext ==
    /\ all \in DOMAIN tasks /\ cb = NoCb
    /\ LET o == runTask(all, FALSE, FALSE)
       IN /\ status' = o.status
          /\ started' = o.started
          /\ ran' = Append(ran, [index |-> all, check |-> FALSE])
          /\ all' = IF o.result \in Exceptions \/ all = Len(tasks)
                    THEN 0 ELSE all + 1
          /\ last' = IF o.result \in Exceptions
                     THEN [last EXCEPT !.result = o.result]
                     ELSE IF all = Len(tasks)
                     THEN [last EXCEPT !.result = "None"]
                     ELSE last
    /\ UNCHANGED <<tasks, pdfs, cb, nops>>
    /\ UNCHANGED engineVars

\* the analysis of a started scenario is done: onAnalysisDone sets the
\* status of its row
onAnalysisDone ==
    /\ cb = NoCb
    /\ \E k \in DOMAIN started :
          /\ cb' = started[k]
          /\ started' = [n \in 1..(Len(started) - 1) |->
                            IF n < k THEN started[n] ELSE started[n + 1]]
          /\ status' = [status EXCEPT ![started[k].index] = Success]
    /\ UNCHANGED <<tasks, pdfs, all, ran, last, nops>>
    /\ UNCHANGED engineVars

\* onAnalysisDone goes on: createPDFReport writes the map and table files
createPDFReport ==
    /\ cb # NoCb
    /\ pdfs' = pdfs \cup {cb.label}
    /\ cb' = NoCb
    /\ UNCHANGED <<tasks, status, started, all, ran, last, nops>>
    /\ UNCHANGED engineVars

NextBatch ==
    \/ RunClicked
    \/ CallRunScenarioTask
    \/ runAllTask
    \/ RunAllNext
    \/ onAnalysisDone
    \/ createPDFReport

SpecBatch == InitBatch /\ [][NextBatch]_vars

BatchTypeOK ==
    /\ \A n \in DOMAIN status :
           status[n] \in {NoStatus, Normal, Running, Fail, Success}
    /\ all \in 0..Len(tasks)
    /\ nops <= MaxOps
(* ------------------------- batch runner claims ------------------------- *)
\* what the claim lists as reasons not to start the scenario of dictionary t
Refused(t) ==
    \/ t.layers = "missing"
    \/ "function" \in DOMAIN t /\ t.function = "unknown"
    \/ t.aggregation = "invalid"
    \/ /\ "extent" \in DOMAIN t
       /\ \/ Len(t.extent) # 4
          \/ \E k \in DOMAIN t.extent : t.extent[k] = "word"

\* C21: a call of runScenarioTask returns True when it has started the
\* scenario analysis (macro.runScenario was called) and False when it has
\* not; it returns False without starting the analysis whenever the layers
\* cannot be loaded, the function or the aggregation cannot be set, or the
\* extent is not made of exactly 4 numbers.
C21_TrueIffStarted ==
    last.op = "runScenarioTask" =>
        /\ last.result \in {"True", "False"}
        /\ last.result = "True" <=> last.runs
        /\ Refused(last.task) => (last.result = "False" /\ ~last.runs)
        /\ ~Refused(last.task) => last.result = "True"

\* runScenarioTask was handed an extent of three numbers and returned False
\* without starting the analysis
C21_Witness ==
    /\ last.op = "runScenarioTask"
    /\ "extent" \in DOMAIN last.task
    /\ last.task.extent = <<"num", "num", "num">>
    /\ last.result = "False"
    /\ ~last.runs

\* C23 (as stated): runAllTask makes one overwrite check over all labels; when
\* the check is declined it returns False, runs no task and changes no
\* status; otherwise, when it is over, it has called runTask exactly once for
\* every task, in ascending order of the index, with the check disabled.
C23_Original ==
    /\ [][(nops' # nops /\ last'.op = "runAllTask" /\ last'.declined) =>
              (last'.result = "False" /\ status' = status /\ ran' = <<>>
                  /\ all' = 0)]_vars
    /\ []((last.op = "runAllTask" /\ ~last.declined /\ all = 0) =>
              ran = [n \in 1..Len(tasks) |-> [index |-> n, check |-> FALSE]])

\* C24 (as stated): when runTask was called on a scenario task with the
\* overwrite check enabled and the user declined, the status of the task is
\* Normal, runTask has returned False and the scenario was not run.
C24_Original ==
    (last.op = "runTask" /\ last.check /\ last.task.type = "scenario"
        /\ last.declined) =>
        /\ status[last.index] = Normal
        /\ last.result = "False"
        /\ ~last.runs

====
